---------------------------- MODULE Spec2Model ----------------------------
(***************************************************************************)
(* A model of the JMH result aggregation pipeline of jni-benchmarks        *)
(* (src/jmhplot.py) and of the older per-value script                      *)
(* (src/process_byte_array_benchmarks_results.py).                         *)
(*                                                                         *)
(* Python strings that the code takes apart (column labels, benchmark      *)
(* names, the range string, the benchmark filter string, secondary values) *)
(* are sequences of one-character strings.  A dict is the sequence of its  *)
(* <<key, value>> items in insertion order.  A data frame is a record of   *)
(* its column labels and the sequence of its rows; a row is a function     *)
(* from column label to value.                                             *)
(***************************************************************************)
EXTENDS Integers, Sequences, FiniteSets, TLC

VARIABLES
    pc,                  \* position of the running call
    path,                \* the filesystem object the path argument names
    primary_param_name,  \* argument of process_benchmarks
    report_benchmarks,   \* argument of process_benchmarks
    select_range,        \* argument of process_benchmarks
    files,               \* files still to be read by the loader loop
    df,                  \* the loader's per-file frame
    normalized,          \* the loader's merged frame (None before the first file)
    dataframe,           \* the batch handed from stage to stage
    params,              \* the caller's ParameterMap (a dict, mutated by split_params)
    bmparams,            \* BMParams(primary, secondary)
    resultSets,          \* ResultSets built by extract_results_per_param
    rowsDone,            \* rows consumed by the running row loop
    artifacts,           \* the output directory: file name -> times written
    saved,               \* fig.savefig calls made so far
    results_dict,        \* process_value_results' accumulator
    file,                \* the loader loop's current file
    result,              \* the value the call under study returned
    error                \* the exception that ended the call, or NoError

vars == <<pc, path, primary_param_name, report_benchmarks, select_range, files,
          df, normalized, dataframe, params, bmparams, resultSets, rowsDone,
          artifacts, saved, results_dict, file, result, error>>

(***************************************************************************)
(* Bounds of the model.                                                    *)
(***************************************************************************)
MaxFileRows == 19
MaxRange == 4
MaxFilter == 3
MaxRows == 3
MaxSamples == 2
MaxCols == 3

(***************************************************************************)
(* Python values and string primitives.                                    *)
(***************************************************************************)
None == [none |-> TRUE]

\* an exception: its class and, for BenchmarkError, the failure it reports
Exc(kind, cause) == [kind |-> kind, cause |-> cause]
NoError == Exc("none", "none")
BenchmarkError(cause) == Exc("BenchmarkError", cause)

Min(S) == CHOOSE x \in S : \A y \in S : x <= y
Max(S) == CHOOSE x \in S : \A y \in S : x >= y

\* str.isspace on one character
IsSpace(c) == c \in {" ", "\t"}

RECURSIVE Split(_, _)
\* str.split(sep) for a one-character separator
Split(s, sep) ==
    LET idx == {i \in 1..Len(s) : s[i] = sep} IN
    IF idx = {} THEN <<s>>
    ELSE LET i == Min(idx) IN
         <<SubSeq(s, 1, i - 1)>> \o Split(SubSeq(s, i + 1, Len(s)), sep)

\* str.strip()
Strip(s) ==
    LET keep == {i \in 1..Len(s) : ~IsSpace(s[i])} IN
    IF keep = {} THEN <<>> ELSE SubSeq(s, Min(keep), Max(keep))

RECURSIVE Join(_, _)
\* sep.join(parts)
Join(parts, sep) ==
    IF parts = <<>> THEN <<>>
    ELSE IF Len(parts) = 1 THEN parts[1]
    ELSE parts[1] \o sep \o Join(Tail(parts), sep)

RECURSIVE SeqsUpTo(_, _)
\* all sequences over S of length at most n
SeqsUpTo(S, n) ==
    IF n = 0 THEN {<<>>}
    ELSE LET shorter == SeqsUpTo(S, n - 1) IN
         shorter \cup {Append(s, x) : s \in shorter, x \in S}

\* dict operations on a sequence of <<key, value>> items
Keys(d) == {d[i][1] : i \in 1..Len(d)}
Get(d, k) == d[CHOOSE i \in 1..Len(d) : d[i][1] = k][2]
Del(d, k) == SelectSeq(d, LAMBDA it : it[1] # k)
Put(d, k, v) ==
    IF k \in Keys(d)
    THEN [i \in 1..Len(d) |-> IF d[i][1] = k THEN <<k, v>> ELSE d[i]]
    ELSE Append(d, <<k, v>>)

(***************************************************************************)
(* Column labels of a JMH result file.                                     *)
(***************************************************************************)
ColBenchmark == <<"B", "e", "n", "c", "h", "m", "a", "r", "k">>
ColScore == <<"S", "c", "o", "r", "e">>
ColScoreError == <<"S", "c", "o", "r", "e", " ", "E", "r", "r", "o", "r", " ",
                   "(", "9", "9", ".", "9", "%", ")">>
ParamPrefix == <<"P", "a", "r", "a", "m", ":", " ">>
ParamMarker == <<"P", "a", "r", "a", "m">>

\* a frame: its column labels in order, and its rows
Frame(columns, rows) == [columns |-> columns, rows |-> rows]
Range(q) == {q[i] : i \in 1..Len(q)}

(***************************************************************************)
(* Tabular loader.                                                         *)
(***************************************************************************)
Step == 9

RECURSIVE Slice(_, _, _)
\* rows[start::step], start 1-based
Slice(rows, start, step) ==
    IF start > Len(rows) THEN <<>>
    ELSE <<rows[start]>> \o Slice(rows, start + step, step)

\* a slice that begins at the second line
DecimateFromSecond(rows) == Slice(rows, 2, Step)

\* df.iloc[::9, :]
Decimate(rows) == Slice(rows, 1, Step)

\* x.split('.')[-1]
LastSegment(x) == LET parts == Split(x, ".") IN parts[Len(parts)]

\* pd.read_csv(file); df.iloc[::9, :]; df["Benchmark"] = last segment
ReadFrame(f) ==
    LET kept == Decimate(f.rows) IN
    Frame(f.columns,
          [k \in 1..Len(kept) |->
              [kept[k] EXCEPT ![ColBenchmark] = LastSegment(@)]])

RECURSIVE Flatten(_)
Flatten(ss) == IF ss = <<>> THEN <<>> ELSE Head(ss) \o Flatten(Tail(ss))

\* pd.merge(left, right): inner join on all common columns, left order kept
Merge(left, right) ==
    LET lcols == Range(left.columns)
        rcols == Range(right.columns)
        common == lcols \cap rcols
        agree(l, r) == \A c \in common : l[c] = r[c]
        joined(l, r) == [c \in lcols \cup rcols |->
                            IF c \in lcols THEN l[c] ELSE r[c]]
        matches(l) == LET rs == SelectSeq(right.rows, LAMBDA r : agree(l, r)) IN
                      [k \in 1..Len(rs) |-> joined(l, rs[k])]
    IN  Frame(left.columns \o SelectSeq(right.columns, LAMBDA c : c \notin lcols),
              Flatten([k \in 1..Len(left.rows) |-> matches(left.rows[k])]))

\* the files normalize_data_frame_from_path reads: sorted(path.rglob("*.csv"))
\* for a directory (entries are kept sorted by path), else the path itself
FilesOf(p) ==
    IF p.kind = "dir" THEN SelectSeq(p.entries, LAMBDA f : f.csv)
    ELSE p.entries

RECURSIVE MergeAll(_, _)
\* the loop of normalize_data_frame_from_path over the remaining files
MergeAll(acc, fs) ==
    IF fs = <<>> THEN acc
    ELSE LET d == ReadFrame(Head(fs)) IN
         MergeAll(IF acc = None THEN d ELSE Merge(acc, d), Tail(fs))

\* normalize_data_frame_from_path as a whole: the merged frame, or the error
normalize_data_frame_from_path(p) ==
    LET merged == MergeAll(None, FilesOf(p)) IN
    IF merged = None
    THEN [raised |-> TRUE, error |-> BenchmarkError("NoInputFiles")]
    ELSE [raised |-> FALSE, value |-> merged]

(***************************************************************************)
(* process_value_results (the older script): per file, the decimated frame *)
(* is folded into results_dict[sz][benchmark] -> list of scores.           *)
(***************************************************************************)
RECURSIVE Unique(_)
\* Series.unique(): the values in order of first appearance
Unique(vs) ==
    IF vs = <<>> THEN <<>>
    ELSE <<Head(vs)>> \o Unique(SelectSeq(Tail(vs), LAMBDA v : v # Head(vs)))

RECURSIVE AppendScores(_, _)
\* the iterrows loop for one size: benchmark -> scores
AppendScores(byBench, rows) ==
    IF rows = <<>> THEN byBench
    ELSE LET r == Head(rows)
             b == r[ColBenchmark]
             old == IF b \in Keys(byBench) THEN Get(byBench, b) ELSE <<>>
         IN  AppendScores(Put(byBench, b, Append(old, r[ColScore])), Tail(rows))

RECURSIVE AddSizes(_, _, _, _)
\* the loop over unique_sizes
AddSizes(rd, sizes, frame, param_name) ==
    IF sizes = <<>> THEN rd
    ELSE LET sz == Head(sizes)
             old == IF sz \in Keys(rd) THEN Get(rd, sz) ELSE <<>>
             df_for_sz == SelectSeq(frame.rows, LAMBDA r : r[param_name] = sz)
         IN  AddSizes(Put(rd, sz, AppendScores(old, df_for_sz)),
                      Tail(sizes), frame, param_name)

Accumulate(rd, frame, param_name) ==
    AddSizes(rd,
             Unique([k \in 1..Len(frame.rows) |-> frame.rows[k][param_name]]),
             frame, param_name)

(***************************************************************************)
(* Inputs and steps of the two loaders.                                    *)
(***************************************************************************)
ParamN == ParamPrefix \o <<"n">>
ParamC == ParamPrefix \o <<"c">>
NameA == <<"p", ".", "A">>
NameB == <<"B">>

Row(bench, score, err, n) ==
    (ColBenchmark :> bench) @@ (ColScore :> score) @@ (ColScoreError :> err)
        @@ (ParamN :> n)

\* a result file of n lines; line i carries its own position as its score
LoadRows(n) ==
    [i \in 1..n |-> Row(IF (i - 1) % 2 = 0 THEN NameA ELSE NameB, i - 1, 0,
                        IF i <= Step THEN 1 ELSE 2)]

LoadFiles ==
    {[csv |-> c, columns |-> <<ColBenchmark, ColScore, ColScoreError, ParamN>>,
      rows |-> LoadRows(n)] : n \in 0..MaxFileRows, c \in BOOLEAN}

LoadPaths ==
    {[kind |-> "dir", entries |-> es] : es \in SeqsUpTo(LoadFiles, 2)}
        \cup {[kind |-> "file", entries |-> <<f>>] : f \in LoadFiles}

EmptyFrame == Frame(<<>>, <<>>)
NoParams == [primary |-> <<>>, secondary |-> <<>>]

\* everything but pc and path at rest
AtRest ==
    /\ primary_param_name = <<>> /\ report_benchmarks = <<>> /\ select_range = <<>>
    /\ files = <<>> /\ file = None /\ df = None /\ normalized = None
    /\ dataframe = EmptyFrame /\ params = <<>> /\ bmparams = NoParams
    /\ resultSets = <<>> /\ rowsDone = 0 /\ artifacts = <<>> /\ saved = 0
    /\ results_dict = <<>> /\ result = None /\ error = NoError

argVars == <<path, primary_param_name, report_benchmarks, select_range>>
groupVars == <<params, bmparams, resultSets, rowsDone>>

InitLoad ==
    /\ pc \in {"call_normalize", "call_process_value_results"}
    /\ path \in LoadPaths
    /\ AtRest

NormalizeCall ==
    /\ pc = "call_normalize"
    /\ files' = FilesOf(path)
    /\ normalized' = None
    /\ pc' = "normalize_loop"
    /\ UNCHANGED <<argVars, groupVars, file, df, dataframe, artifacts, saved,
                   results_dict, result, error>>

NormalizeFile ==
    /\ pc = "normalize_loop" /\ files # <<>>
    /\ file' = Head(files)
    /\ files' = Tail(files)
    /\ df' = ReadFrame(Head(files))
    /\ normalized' = IF normalized = None THEN df' ELSE Merge(normalized, df')
    /\ UNCHANGED <<pc, argVars, groupVars, dataframe, artifacts, saved,
                   results_dict, result, error>>

NormalizeReturn ==
    /\ pc = "normalize_loop" /\ files = <<>>
    /\ IF normalized = None
       THEN /\ error' = BenchmarkError("NoInputFiles")
            /\ pc' = "raised"
            /\ UNCHANGED result
       ELSE /\ result' = normalized
            /\ pc' = "returned"
            /\ UNCHANGED error
    /\ UNCHANGED <<argVars, groupVars, files, file, df, normalized, dataframe,
                   artifacts, saved, results_dict>>

\* os.listdir(path): the directory's entries, in no particular order
PvrCall ==
    /\ pc = "call_process_value_results"
    /\ IF path.kind = "dir"
       THEN /\ files' = path.entries
            /\ pc' = "pvr_loop"
            /\ UNCHANGED error
       ELSE /\ error' = Exc("NotADirectoryError", "none")
            /\ pc' = "raised"
            /\ UNCHANGED files
    /\ UNCHANGED <<argVars, groupVars, file, df, normalized, dataframe, artifacts,
                   saved, results_dict, result>>

PvrFile ==
    /\ pc = "pvr_loop"
    /\ \E i \in 1..Len(files) :
        /\ file' = files[i]
        /\ files' = SubSeq(files, 1, i - 1) \o SubSeq(files, i + 1, Len(files))
        /\ IF files[i].csv
           THEN /\ df' = ReadFrame(files[i])
                /\ results_dict' = Accumulate(results_dict, df', ParamN)
           ELSE UNCHANGED <<df, results_dict>>
    /\ UNCHANGED <<pc, argVars, groupVars, normalized, dataframe, artifacts, saved,
                   result, error>>

\* plot_byte_array_from_native_performance_comparisons: one figure per size
PvrPlot ==
    /\ pc = "pvr_loop" /\ files = <<>>
    /\ artifacts' = [k \in 1..Len(results_dict) |-> <<"fig", results_dict[k][1]>>]
    /\ saved' = Len(results_dict)
    /\ pc' = "returned"
    /\ UNCHANGED <<argVars, groupVars, files, file, df, normalized, dataframe,
                   results_dict, result, error>>

NextLoad ==
    \/ NormalizeCall
    \/ NormalizeFile
    \/ NormalizeReturn
    \/ PvrCall
    \/ PvrFile
    \/ PvrPlot

SpecLoad == InitLoad /\ [][NextLoad]_vars

(***************************************************************************)
(* C8: decimation.  Whenever a loader has read a file, the frame it holds  *)
(* for that file consists of exactly the file's lines at the 0-based       *)
(* positions 0, 9, 18, ... in their original order, ceil(n/9) of them, in  *)
(* normalize_data_frame_from_path and in process_value_results alike, and  *)
(* before any merge.                                                       *)
(***************************************************************************)
\* the 0-based positions the claim keeps
NinthPositions(n) == {i \in 0..(n - 1) : i % 9 = 0}

\* frame d holds the lines of f at the claimed positions, in order
IsDecimationOf(d, f) ==
    LET n == Len(f.rows)
        P == NinthPositions(n)
    IN  /\ Len(d.rows) = Cardinality(P)
        /\ Len(d.rows) * 9 >= n
        /\ (Len(d.rows) - 1) * 9 < n
        /\ \A k \in 1..Len(d.rows) :
              \E i \in P :
                 /\ Cardinality({j \in P : j < i}) = k - 1
                 /\ \A c \in Range(f.columns) \ {ColBenchmark} :
                       d.rows[k][c] = f.rows[i + 1][c]

\* df was made from the loop's current file
FrameIsOfFile == df # None /\ (normalized # None \/ file.csv)

\* C8
DecimationKeepsEveryNinth == FrameIsOfFile => IsDecimationOf(df, file)

DecimationWitness ==
    /\ FrameIsOfFile
    /\ normalized # None
    /\ Len(file.rows) = 18
    /\ Len(df.rows) = 2
    /\ df.rows[1][ColScore] = 0 /\ df.rows[2][ColScore] = 9
    /\ files = <<>> /\ Len(path.entries) = 2

(***************************************************************************)
(* Parameter extractor and splitter.                                       *)
(***************************************************************************)
RECURSIVE ExtractFrom(_, _)
\* the loop of extract_params over the remaining columns
ExtractFrom(acc, columns) ==
    IF columns = <<>> THEN acc
    ELSE LET column == Head(columns)
             fields == Split(column, ":")
         IN  ExtractFrom(IF Len(fields) = 2 /\ fields[1] = ParamMarker
                         THEN Put(acc, Strip(fields[2]), column)
                         ELSE acc,
                         Tail(columns))

\* an extractor that keeps the first label of a name instead of the last
extract_params_first_wins(frame) ==
    LET RECURSIVE go(_, _)
        go(acc, columns) ==
            IF columns = <<>> THEN acc
            ELSE LET column == Head(columns)
                     fields == Split(column, ":")
                     key == Strip(fields[2])
                 IN  go(IF Len(fields) = 2 /\ fields[1] = ParamMarker
                           /\ key \notin Keys(acc)
                        THEN Put(acc, key, column)
                        ELSE acc,
                        Tail(columns))
    IN  go(<<>>, frame.columns)

extract_params(frame) == ExtractFrom(<<>>, frame.columns)

\* a split that leaves the caller's dict as it was
split_params_keeps_primary(m, primary) ==
    IF primary \notin Keys(m)
    THEN [raised |-> TRUE, error |-> BenchmarkError("MissingPrimaryParameter"),
          params |-> m]
    ELSE [raised |-> FALSE,
          value |-> [primary |-> <<<<primary, Get(m, primary)>>>>,
                     secondary |-> m],
          params |-> m]

\* split_params: the BMParams returned (or the error raised) and the caller's
\* dict as the call leaves it; secondary IS that dict
split_params(m, primary) ==
    IF primary \notin Keys(m)
    THEN [raised |-> TRUE, error |-> BenchmarkError("MissingPrimaryParameter"),
          params |-> m]
    ELSE LET primary_params == <<<<primary, Get(m, primary)>>>>
             rest == Del(m, primary)
         IN  [raised |-> FALSE,
              value |-> [primary |-> primary_params, secondary |-> rest],
              params |-> rest]

\* column labels: up to three ':'-separated parts
LabelFirsts == {ParamMarker, <<" ">> \o ParamMarker}
LabelSeconds == {<<>>, <<"x">>, <<" ", "x">>, <<"y">>}
Labels ==
    LabelFirsts
        \cup {a \o <<":">> \o b : a \in LabelFirsts, b \in LabelSeconds}
        \cup {a \o <<":">> \o <<"x">> \o <<":">> \o <<"x">> : a \in LabelFirsts}

\* read_csv never yields two columns with one label
Schemas == {cs \in SeqsUpTo(Labels, MaxCols) :
               \A i, j \in 1..Len(cs) : cs[i] = cs[j] => i = j}

PrimaryNames == {<<"x">>, <<>>, <<"z">>}

InitParams ==
    /\ pc = "call_extract_params"
    /\ path = None
    /\ \E cs \in Schemas : dataframe = Frame(cs, <<>>)
    /\ primary_param_name \in PrimaryNames
    /\ report_benchmarks = <<>> /\ select_range = <<>>
    /\ files = <<>> /\ file = None /\ df = None /\ normalized = None
    /\ params = <<>> /\ bmparams = NoParams
    /\ resultSets = <<>> /\ rowsDone = 0 /\ artifacts = <<>> /\ saved = 0
    /\ results_dict = <<>> /\ result = None /\ error = NoError

loadVars == <<files, file, df, normalized, results_dict>>
plotVars == <<artifacts, saved>>

\* params = extract_params(dataframe); result remembers the map as returned
ExtractParams ==
    /\ pc = "call_extract_params"
    /\ params' = extract_params(dataframe)
    /\ result' = params'
    /\ pc' = "call_split_params"
    /\ UNCHANGED <<argVars, loadVars, plotVars, dataframe, bmparams, resultSets,
                   rowsDone, error>>

\* split_params(params, primary_param_name), and the same call made again
SplitParams ==
    /\ pc \in {"call_split_params", "split_returned"}
    /\ LET r == split_params(params, primary_param_name) IN
       /\ params' = r.params
       /\ IF r.raised
          THEN /\ error' = r.error
               /\ pc' = IF pc = "call_split_params"
                        THEN "split_raised" ELSE "second_split_raised"
               /\ UNCHANGED bmparams
          ELSE /\ bmparams' = r.value
               /\ pc' = IF pc = "call_split_params"
                        THEN "split_returned" ELSE "second_split_returned"
               /\ UNCHANGED error
    /\ UNCHANGED <<argVars, loadVars, plotVars, dataframe, resultSets, rowsDone,
                   result>>

NextParams ==
    \/ ExtractParams
    \/ SplitParams

SpecParams == InitParams /\ [][NextParams]_vars

(***************************************************************************)
(* C9: extract_params.  As claimed: the entries are exactly the labels     *)
(* that split on ':' into two non-empty parts whose trimmed first part is  *)
(* 'Param', each stored under its trimmed second part, and every key maps  *)
(* to one existing column label.                                           *)
(***************************************************************************)
SecondPart(label) == Strip(Split(label, ":")[2])

ClaimedQualifies(label) ==
    LET fields == Split(label, ":") IN
    /\ Len(fields) = 2
    /\ fields[1] # <<>> /\ fields[2] # <<>>
    /\ Strip(fields[1]) = ParamMarker

Extracted == pc # "call_extract_params"

\* C9 as stated
ExtractParamsAsClaimed ==
    Extracted =>
        /\ \A label \in Range(dataframe.columns) :
              ClaimedQualifies(label)
                  <=> \E i \in 1..Len(result) :
                         result[i] = <<SecondPart(label), label>>
        /\ \A i, j \in 1..Len(result) : result[i][1] = result[j][1] => i = j
        /\ \A i \in 1..Len(result) : result[i][2] \in Range(dataframe.columns)

(***************************************************************************)
(* C9 as amended: a label qualifies iff it splits on ':' into exactly two  *)
(* parts and the first part is exactly 'Param' (not trimmed; the second    *)
(* part may be empty).  The keys are exactly the trimmed second parts of   *)
(* the qualifying labels, each key maps to the last qualifying label, in   *)
(* column order, with that trimmed second part, and every key maps to one  *)
(* existing column label.                                                  *)
(***************************************************************************)
CodeQualifies(label) ==
    LET fields == Split(label, ":") IN
    Len(fields) = 2 /\ fields[1] = ParamMarker

\* C9 as amended: the dict holds exactly the trimmed second parts of the
\* labels whose first of two ':'-parts is exactly 'Param', each mapped to
\* the last such label in column order.
ExtractParamsAmended ==
    Extracted =>
        LET cols == dataframe.columns
            qual == {i \in 1..Len(cols) : CodeQualifies(cols[i])}
        IN  /\ Keys(result) = {SecondPart(cols[i]) : i \in qual}
            /\ \A k \in Keys(result) :
                  Get(result, k) =
                      cols[Max({i \in qual : SecondPart(cols[i]) = k})]
            /\ \A i, j \in 1..Len(result) : result[i][1] = result[j][1] => i = j
            /\ \A i \in 1..Len(result) : result[i][2] \in Range(cols)

ExtractParamsWitness ==
    /\ Extracted
    /\ dataframe.columns = <<ParamMarker \o <<":", "x">>,
                             <<" ">> \o ParamMarker \o <<":", "y">>,
                             ParamMarker \o <<":", " ", "x">>>>
    /\ result = << <<(<<"x">>), ParamMarker \o <<":", " ", "x">>>> >>

(***************************************************************************)
(* C6: split_params(m, p), with m the map extract_params returned.  If p   *)
(* is a key of m the call returns primary = {p -> m[p]} and secondary =    *)
(* the other entries of m in m's order, disjoint and together equal to m,  *)
(* and the caller's map has lost p, so that a second split on p fails with *)
(* MissingPrimaryParameter; if p is no key of m the call fails with        *)
(* MissingPrimaryParameter and leaves m unchanged.                         *)
(***************************************************************************)
IndexIn(d, item) == CHOOSE i \in 1..Len(d) : d[i] = item

SplitPostcondition(m, p) ==
    /\ p \in Keys(m)
    /\ Len(bmparams.primary) = 1
    /\ bmparams.primary[1][1] = p
    /\ \E i \in 1..Len(m) : m[i] = bmparams.primary[1]
    /\ Len(bmparams.secondary) = Len(m) - 1
    /\ \A i \in 1..Len(bmparams.secondary) :
          \E j \in 1..Len(m) : m[j] = bmparams.secondary[i]
    /\ \A i, j \in 1..Len(bmparams.secondary) :
          i < j => IndexIn(m, bmparams.secondary[i])
                       < IndexIn(m, bmparams.secondary[j])
    /\ Keys(bmparams.primary) \cap Keys(bmparams.secondary) = {}
    /\ Range(bmparams.primary) \cup Range(bmparams.secondary) = Range(m)
    /\ p \notin Keys(params)

\* C6
SplitParamsContract ==
    LET m == result
        p == primary_param_name
        missing == BenchmarkError("MissingPrimaryParameter")
    IN  /\ pc = "split_returned" => SplitPostcondition(m, p)
        /\ pc = "split_raised" =>
              p \notin Keys(m) /\ error = missing /\ params = m
        /\ pc # "second_split_returned"
        /\ pc = "second_split_raised" =>
              SplitPostcondition(m, p) /\ error = missing

SplitParamsWitness ==
    /\ pc = "second_split_raised"
    /\ Len(result) = 3
    /\ primary_param_name = result[2][1]
    /\ Len(bmparams.secondary) = 2

SplitParamsMissingWitness ==
    /\ pc = "split_raised"
    /\ Len(result) = 2
    /\ params = result

(***************************************************************************)
(* Numeric-range filter.                                                   *)
(***************************************************************************)
\* sys.maxsize (of a 32-bit build; the bounds of a 64-bit build lie further
\* out still)
maxsize == 2147483647

Digits == <<"0", "1", "2", "3", "4", "5", "6", "7", "8", "9">>
IsDigit(c) == \E i \in 1..Len(Digits) : Digits[i] = c
DigitValue(c) == (CHOOSE i \in 1..Len(Digits) : Digits[i] = c) - 1

RECURSIVE Magnitude(_)
Magnitude(ds) ==
    IF Len(ds) = 1 THEN DigitValue(ds[1])
    ELSE Magnitude(SubSeq(ds, 1, Len(ds) - 1)) * 10 + DigitValue(ds[Len(ds)])

\* int(s) for a str: surrounding whitespace, an optional sign, decimal digits
ParseInt(s) ==
    LET t == Strip(s)
        signed == t # <<>> /\ t[1] \in {"-", "+"}
        body == IF signed THEN Tail(t) ELSE t
    IN  IF body = <<>> \/ \E i \in 1..Len(body) : ~IsDigit(body[i])
        THEN [ok |-> FALSE]
        ELSE [ok |-> TRUE,
              value |-> IF signed /\ t[1] = "-" THEN -Magnitude(body)
                        ELSE Magnitude(body)]

Raise(e) == [raised |-> TRUE, error |-> e]
Return(v) == [raised |-> FALSE, value |-> v]

\* a range filter with both bounds excluded
filter_for_range_exclusive(frame, name, range) ==
    LET from_to == Split(range, "<")
        lo == IF Len(from_to[1]) > 0 THEN ParseInt(from_to[1])
              ELSE [ok |-> TRUE, value |-> -maxsize]
        hi == IF Len(from_to[2]) > 0 THEN ParseInt(from_to[2])
              ELSE [ok |-> TRUE, value |-> maxsize]
        column == ParamPrefix \o name
    IN  IF Len(from_to) # 2 THEN Return(frame)
        ELSE IF ~lo.ok \/ ~hi.ok THEN Raise(BenchmarkError("InvalidRange"))
        ELSE IF ~(lo.value <= hi.value) THEN Raise(BenchmarkError("InvalidRange"))
        ELSE IF column \notin Range(frame.columns) THEN Raise(Exc("KeyError", "none"))
        ELSE Return(Frame(frame.columns,
                          SelectSeq(frame.rows,
                                    LAMBDA r : r[column] > lo.value
                                               /\ r[column] < hi.value)))

\* filter_for_range: the cells of an integer column are their own int()
filter_for_range(frame, name, range) ==
    LET from_to == Split(range, "<")
        lo == IF Len(from_to[1]) > 0 THEN ParseInt(from_to[1])
              ELSE [ok |-> TRUE, value |-> -maxsize]
        hi == IF Len(from_to[2]) > 0 THEN ParseInt(from_to[2])
              ELSE [ok |-> TRUE, value |-> maxsize]
        column == ParamPrefix \o name
    IN  IF Len(from_to) # 2 THEN Return(frame)
        ELSE IF ~lo.ok \/ ~hi.ok THEN Raise(BenchmarkError("InvalidRange"))
        ELSE IF ~(lo.value <= hi.value) THEN Raise(BenchmarkError("InvalidRange"))
        ELSE IF column \notin Range(frame.columns) THEN Raise(Exc("KeyError", "none"))
        ELSE Return(Frame(frame.columns,
                          SelectSeq(frame.rows,
                                    LAMBDA r : r[column] >= lo.value
                                               /\ r[column] <= hi.value)))

RangeChars == {"1", "2", "<", "-", "x", " "}
RangeStrings == SeqsUpTo(RangeChars, MaxRange)
RangeValues == {-1, 1, 2, 12}
NameN == <<"n">>

\* a row of a frame whose only parameter column is labelled label
RowOf(label, bench, score, err, n) ==
    (ColBenchmark :> bench) @@ (ColScore :> score) @@ (ColScoreError :> err)
        @@ (label :> n)

\* frames whose parameter n is labelled "Param: n" or "Param:n"
RangeFrames ==
    {Frame(<<ColBenchmark, ColScore, ColScoreError, label>>,
           [k \in 1..Len(vs) |-> RowOf(label, NameB, k, 0, vs[k])]) :
        label \in {ParamN, ParamMarker \o <<":">> \o NameN},
        vs \in SeqsUpTo(RangeValues, MaxRows)}

InitRange ==
    /\ pc = "call_filter_for_range"
    /\ path = None
    /\ dataframe \in RangeFrames
    /\ primary_param_name = NameN
    /\ select_range \in RangeStrings
    /\ report_benchmarks = <<>>
    /\ files = <<>> /\ file = None /\ df = None /\ normalized = None
    /\ params = <<>> /\ bmparams = NoParams
    /\ resultSets = <<>> /\ rowsDone = 0 /\ artifacts = <<>> /\ saved = 0
    /\ results_dict = <<>> /\ result = None /\ error = NoError

FilterForRange ==
    /\ pc = "call_filter_for_range"
    /\ LET r == filter_for_range(dataframe, primary_param_name, select_range) IN
       IF r.raised
       THEN error' = r.error /\ pc' = "raised" /\ UNCHANGED result
       ELSE result' = r.value /\ pc' = "returned" /\ UNCHANGED error
    /\ UNCHANGED <<argVars, loadVars, plotVars, groupVars, dataframe>>

NextRange == FilterForRange

SpecRange == InitRange /\ [][NextRange]_vars

(***************************************************************************)
(* C2: filter_for_range against the claimed reference.  A range string     *)
(* without exactly one '<' returns the batch unchanged; otherwise a        *)
(* non-empty side that is no integer, or a lower bound above the upper     *)
(* bound, fails with InvalidRange; otherwise exactly the rows whose value  *)
(* in the column the ParameterMap gives for the primary name lies in       *)
(* [low, high], a missing side being unbounded, are kept in order.         *)
(***************************************************************************)
RangeReference(frame, name, range) ==
    LET marks == {i \in 1..Len(range) : range[i] = "<"}
        at == CHOOSE i \in marks : TRUE
        left == SubSeq(range, 1, at - 1)
        right == SubSeq(range, at + 1, Len(range))
        low == ParseInt(left)
        high == ParseInt(right)
        column == Get(extract_params(frame), name)
        inside(v) == /\ left = <<>> \/ low.value <= v
                     /\ right = <<>> \/ v <= high.value
    IN  IF Cardinality(marks) # 1 THEN Return(frame)
        ELSE IF (left # <<>> /\ ~low.ok) \/ (right # <<>> /\ ~high.ok)
             THEN Raise(BenchmarkError("InvalidRange"))
        ELSE IF left # <<>> /\ right # <<>> /\ low.value > high.value
             THEN Raise(BenchmarkError("InvalidRange"))
        ELSE Return(Frame(frame.columns,
                          SelectSeq(frame.rows, LAMBDA r : inside(r[column]))))

\* what the finished call did
Outcome ==
    IF pc = "raised" THEN Raise(error) ELSE Return(result)

\* C2 as stated
RangeFilterAsClaimed ==
    (pc \in {"returned", "raised"}
        /\ primary_param_name \in Keys(extract_params(dataframe)))
    => Outcome = RangeReference(dataframe, primary_param_name, select_range)

\* on frames whose column is labelled 'Param: ' + name the code and the
\* reference agree
RangeFilterOnCanonicalLabel ==
    (pc \in {"returned", "raised"}
        /\ ParamPrefix \o primary_param_name \in Range(dataframe.columns))
    => Outcome = RangeReference(dataframe, primary_param_name, select_range)

RangeFilterCanonicalWitness ==
    /\ pc = "returned"
    /\ ParamPrefix \o primary_param_name \in Range(dataframe.columns)
    /\ select_range = <<"1", "<", "2">>
    /\ Len(dataframe.rows) = 2 /\ Len(result.rows) = 1

(***************************************************************************)
(* Benchmark-name filter.  The substrings are compiled as regular          *)
(* expressions; of the syntax, literals, '.', and a postfix '+' are        *)
(* modelled.                                                               *)
(***************************************************************************)
Letters == {"a", "b", "c", "d", "e", "f", "g", "h", "i", "j", "k", "l", "m",
            "n", "o", "p", "q", "r", "s", "t", "u", "v", "w", "x", "y", "z",
            "A", "B", "C", "D", "E", "F", "G", "H", "I", "J", "K", "L", "M",
            "N", "O", "P", "Q", "R", "S", "T", "U", "V", "W", "X", "Y", "Z"}

\* the class [A-Za-z0-9_\-+]
InPatternClass(c) == c \in Letters \/ IsDigit(c) \/ c \in {"_", "-", "+"}

\* re.compile('[A-Za-z0-9_\-+]').match(report_bm) is not None
FirstCharAllowed(report_bm) ==
    report_bm # <<>> /\ InPatternClass(report_bm[1])

RECURSIVE RegexItems(_)
\* one alternative as a sequence of atoms, each with or without a '+' after it
RegexItems(chars) ==
    IF chars = <<>> THEN <<>>
    ELSE IF Len(chars) >= 2 /\ chars[2] = "+"
         THEN <<[ch |-> chars[1], plus |-> TRUE]>>
                  \o RegexItems(SubSeq(chars, 3, Len(chars)))
         ELSE <<[ch |-> chars[1], plus |-> FALSE]>> \o RegexItems(Tail(chars))

\* re.compile accepts the alternative: no '+' stands where an atom must
Compiles(chars) ==
    LET items == RegexItems(chars) IN
    \A i \in 1..Len(items) : items[i].ch # "+"

AtomMatches(ch, c) == IF ch = "." THEN c # "\n" ELSE ch = c

\* the positions after one match of the atom from a position of P
StepOne(it, s, P) ==
    {q + 1 : q \in {q \in P : q <= Len(s) /\ AtomMatches(it.ch, s[q])}}

RECURSIVE PlusClosure(_, _, _)
PlusClosure(it, s, P) ==
    LET N == StepOne(it, s, P) IN
    IF N = {} THEN {} ELSE N \cup PlusClosure(it, s, N)

RECURSIVE Ends(_, _, _)
\* the positions where a match of the items begun at a position of P can end
Ends(items, s, P) ==
    IF items = <<>> THEN P
    ELSE Ends(Tail(items), s,
              IF Head(items).plus THEN PlusClosure(Head(items), s, P)
              ELSE StepOne(Head(items), s, P))

\* re.compile('\S*(a|b|...)\S*').match(x) is not None
PatternMatches(report_bms, x) ==
    LET starts == {i \in 1..(Len(x) + 1) : \A j \in 1..(i - 1) : ~IsSpace(x[j])}
    IN  \E k \in 1..Len(report_bms) :
           Ends(RegexItems(report_bms[k]), x, starts) # {}

\* a name filter that matches at the start of the name only
filter_for_benchmarks_prefix(frame, report) ==
    LET report_bms == Split(report, ",") IN
    IF report = <<>> THEN Return(frame)
    ELSE IF \E k \in 1..Len(report_bms) : ~FirstCharAllowed(report_bms[k])
         THEN Raise(BenchmarkError("InvalidBenchmarkPattern"))
    ELSE IF \E k \in 1..Len(report_bms) : ~Compiles(report_bms[k])
         THEN Raise(Exc("re.error", "none"))
    ELSE Return(Frame(frame.columns,
                      SelectSeq(frame.rows,
                                LAMBDA r :
                                    \E k \in 1..Len(report_bms) :
                                       Ends(RegexItems(report_bms[k]),
                                            r[ColBenchmark], {1}) # {})))

\* filter_for_benchmarks; main always passes a str, never None
filter_for_benchmarks(frame, report) ==
    LET report_bms == Split(report, ",") IN
    IF report = <<>> THEN Return(frame)
    ELSE IF \E k \in 1..Len(report_bms) : ~FirstCharAllowed(report_bms[k])
         THEN Raise(BenchmarkError("InvalidBenchmarkPattern"))
    ELSE IF \E k \in 1..Len(report_bms) : ~Compiles(report_bms[k])
         THEN Raise(Exc("re.error", "none"))
    ELSE Return(Frame(frame.columns,
                      SelectSeq(frame.rows,
                                LAMBDA r : PatternMatches(report_bms,
                                                          r[ColBenchmark]))))

FilterChars == {"a", "b", ".", "+", ","}

\* filter strings; a '+' after a '+' (a possessive quantifier or an error,
\* by the interpreter's version) is left out
FilterStrings ==
    {f \in SeqsUpTo(FilterChars, MaxFilter) :
        \A i \in 1..(Len(f) - 1) : ~(f[i] = "+" /\ f[i + 1] = "+")}

NameChars == {"a", "b", "A"}
BenchNames == SeqsUpTo(NameChars, 2) \ {<<>>}

BenchFrames ==
    {Frame(<<ColBenchmark, ColScore, ColScoreError, ParamN>>,
           [k \in 1..Len(ns) |-> Row(ns[k], k, 0, 1)]) :
        ns \in SeqsUpTo(BenchNames, MaxRows)}

InitBench ==
    /\ pc = "call_filter_for_benchmarks"
    /\ path = None
    /\ dataframe \in BenchFrames
    /\ report_benchmarks \in FilterStrings
    /\ primary_param_name = NameN
    /\ select_range = <<>>
    /\ files = <<>> /\ file = None /\ df = None /\ normalized = None
    /\ params = <<>> /\ bmparams = NoParams
    /\ resultSets = <<>> /\ rowsDone = 0 /\ artifacts = <<>> /\ saved = 0
    /\ results_dict = <<>> /\ result = None /\ error = NoError

FilterForBenchmarks ==
    /\ pc = "call_filter_for_benchmarks"
    /\ LET r == filter_for_benchmarks(dataframe, report_benchmarks) IN
       IF r.raised
       THEN error' = r.error /\ pc' = "raised" /\ UNCHANGED result
       ELSE result' = r.value /\ pc' = "returned" /\ UNCHANGED error
    /\ UNCHANGED <<argVars, loadVars, plotVars, groupVars, dataframe>>

NextBench == FilterForBenchmarks

SpecBench == InitBench /\ [][NextBench]_vars

(***************************************************************************)
(* C3: filter_for_benchmarks against the claimed reference.  An absent or  *)
(* empty filter returns the batch unchanged; otherwise the call fails with *)
(* InvalidBenchmarkPattern exactly when some comma-separated substring     *)
(* does not begin with a character of [A-Za-z0-9_+-]; otherwise exactly    *)
(* the rows whose benchmark name contains one of the substrings, as a      *)
(* literal case-sensitive infix, are kept in order.                        *)
(***************************************************************************)
IsInfix(sub, x) ==
    \E i \in 1..(Len(x) - Len(sub) + 1) : SubSeq(x, i, i + Len(sub) - 1) = sub

BenchReference(frame, report) ==
    LET subs == Split(report, ",") IN
    IF report = <<>> THEN Return(frame)
    ELSE IF \E k \in 1..Len(subs) : subs[k] = <<>> \/ ~InPatternClass(subs[k][1])
         THEN Raise(BenchmarkError("InvalidBenchmarkPattern"))
    ELSE Return(Frame(frame.columns,
                      SelectSeq(frame.rows,
                                LAMBDA r : \E k \in 1..Len(subs) :
                                              IsInfix(subs[k], r[ColBenchmark]))))

\* C3 as stated
BenchFilterAsClaimed ==
    pc \in {"returned", "raised"}
        => Outcome = BenchReference(dataframe, report_benchmarks)

\* a filter is plain when every character is of the validated class and none
\* is a regular-expression operator
PlainFilter(report) ==
    \A i \in 1..Len(report) : report[i] \in {"a", "b", ","}

\* on plain filters the code and the reference agree
BenchFilterOnPlainFilters ==
    (pc \in {"returned", "raised"} /\ PlainFilter(report_benchmarks))
        => Outcome = BenchReference(dataframe, report_benchmarks)

BenchFilterPlainWitness ==
    /\ pc = "returned"
    /\ report_benchmarks = <<"a", ",", "b">>
    /\ Len(dataframe.rows) = 2 /\ Len(result.rows) = 1
    /\ result.rows[1][ColBenchmark] = <<"A", "b">>

(***************************************************************************)
(* Grouping engine and renderer.                                           *)
(***************************************************************************)
\* tuple_of_secondary_values
tuple_of_secondary_values(bmp, row) ==
    [k \in 1..Len(bmp.secondary) |-> row[bmp.secondary[k][2]]]

\* tuple_of_secondary_keys
tuple_of_secondary_keys(bmp) ==
    [k \in 1..Len(bmp.secondary) |-> bmp.secondary[k][1]]

BMResult(value, score, err) == [value |-> value, score |-> score, error |-> err]

RECURSIVE AppendEntries(_, _, _)
\* the loop over params.primary.items() for one row
AppendEntries(bucket, primary, row) ==
    IF primary = <<>> THEN bucket
    ELSE AppendEntries(Append(bucket,
                              BMResult(row[Head(primary)[2]], row[ColScore],
                                       row[ColScoreError])),
                       Tail(primary), row)

\* a row step that ignores the secondary values
GroupRowByBenchmarkOnly(rs, bmp, row) ==
    LET secondaryTuple == <<>>
        resultSet == IF secondaryTuple \in Keys(rs) THEN Get(rs, secondaryTuple)
                     ELSE <<>>
        bucket == IF row[ColBenchmark] \in Keys(resultSet)
                  THEN Get(resultSet, row[ColBenchmark]) ELSE <<>>
    IN  Put(rs, secondaryTuple,
            Put(resultSet, row[ColBenchmark],
                AppendEntries(bucket, bmp.primary, row)))

\* one iteration of the row loop of extract_results_per_param
GroupRow(rs, bmp, row) ==
    LET secondaryTuple == tuple_of_secondary_values(bmp, row)
        resultSet == IF secondaryTuple \in Keys(rs) THEN Get(rs, secondaryTuple)
                     ELSE <<>>
        bucket == IF row[ColBenchmark] \in Keys(resultSet)
                  THEN Get(resultSet, row[ColBenchmark]) ELSE <<>>
    IN  Put(rs, secondaryTuple,
            Put(resultSet, row[ColBenchmark],
                AppendEntries(bucket, bmp.primary, row)))

RECURSIVE GroupRows(_, _, _)
GroupRows(rs, bmp, rows) ==
    IF rows = <<>> THEN rs
    ELSE GroupRows(GroupRow(rs, bmp, Head(rows)), bmp, Tail(rows))

\* extract_results_per_param
extract_results_per_param(frame, bmp) == GroupRows(<<>>, bmp, frame.rows)

\* const_datetime_str: one value per run, of digits, '-', ':', '.' and 'T'
const_datetime_str == <<"T">>

\* the file name plot_result_set saves to; the values of a string column are
\* their own str()
ArtifactName(indexTuple) ==
    <<"f", "i", "g", "_">> \o const_datetime_str \o <<"_">>
        \o Join(indexTuple, <<"_">>) \o <<".", "p", "n", "g">>

\* plot_result_set: path.parent is a property, so path.parent() raises
plot_result_set(indexTuple, p) ==
    IF p.kind = "file" THEN Raise(Exc("TypeError", "none"))
    ELSE Return(ArtifactName(indexTuple))

RECURSIVE PlotFrom(_, _, _)
\* plot_all_results from group k on: the names saved, and the outcome
PlotFrom(rs, k, p) ==
    IF k > Len(rs) THEN [raised |-> FALSE, written |-> <<>>]
    ELSE LET r == plot_result_set(rs[k][1], p) IN
         IF r.raised THEN [raised |-> TRUE, error |-> r.error, written |-> <<>>]
         ELSE LET rest == PlotFrom(rs, k + 1, p) IN
              [rest EXCEPT !.written = <<r.value>> \o @]

plot_all_results(rs, p) == PlotFrom(rs, 1, p)

ParamD == ParamPrefix \o <<"d">>
GroupColumns == <<ColBenchmark, ColScore, ColScoreError, ParamN, ParamC, ParamD>>
SecondaryValuesC == {<<"a">>, <<"a", "_">>}
SecondaryValuesD == {<<"a">>, <<"_", "a">>}

GroupRowOf(bench, score, n, c, d) ==
    Row(bench, score, score + 1, n) @@ (ParamC :> c) @@ (ParamD :> d)

GroupRowShapes ==
    {[bench |-> b, c |-> c, d |-> d] :
        b \in {<<"A">>, <<"B">>},
        c \in SecondaryValuesC, d \in SecondaryValuesD}

\* filtered batches; a row's score is its position, and the values of the
\* primary parameter descend along the batch
GroupFrames ==
    {Frame(GroupColumns,
           [k \in 1..Len(sh) |->
               GroupRowOf(sh[k].bench, k, Len(sh) - k + 1, sh[k].c, sh[k].d)]) :
        sh \in SeqsUpTo(GroupRowShapes, MaxRows) \ {<<>>}}

InitGroup ==
    /\ pc = "grouping"
    /\ path \in {[kind |-> "dir", entries |-> <<>>],
                 [kind |-> "file", entries |-> <<>>]}
    /\ dataframe \in GroupFrames
    /\ primary_param_name = NameN
    /\ params = split_params(extract_params(dataframe), primary_param_name).params
    /\ bmparams = split_params(extract_params(dataframe), primary_param_name).value
    /\ report_benchmarks = <<>> /\ select_range = <<>>
    /\ files = <<>> /\ file = None /\ df = None /\ normalized = None
    /\ resultSets = <<>> /\ rowsDone = 0 /\ artifacts = <<>> /\ saved = 0
    /\ results_dict = <<>> /\ result = None /\ error = NoError

\* one row of extract_results_per_param's loop
GroupStep ==
    /\ pc = "grouping" /\ rowsDone < Len(dataframe.rows)
    /\ resultSets' = GroupRow(resultSets, bmparams, dataframe.rows[rowsDone + 1])
    /\ rowsDone' = rowsDone + 1
    /\ UNCHANGED <<pc, argVars, loadVars, plotVars, dataframe, params, bmparams,
                   result, error>>

GroupReturn ==
    /\ pc = "grouping" /\ rowsDone = Len(dataframe.rows)
    /\ pc' = "plotting"
    /\ UNCHANGED <<argVars, loadVars, plotVars, groupVars, dataframe, result, error>>

\* one group of plot_all_results' loop
PlotStep ==
    /\ pc = "plotting" /\ saved < Len(resultSets)
    /\ LET r == plot_result_set(resultSets[saved + 1][1], path) IN
       IF r.raised
       THEN error' = r.error /\ pc' = "raised" /\ UNCHANGED <<artifacts, saved>>
       ELSE /\ artifacts' = Append(artifacts, r.value)
            /\ saved' = saved + 1
            /\ UNCHANGED <<pc, error>>
    /\ UNCHANGED <<argVars, loadVars, groupVars, dataframe, result>>

PlotReturn ==
    /\ pc = "plotting" /\ saved = Len(resultSets)
    /\ pc' = "plotted"
    /\ UNCHANGED <<argVars, loadVars, plotVars, groupVars, dataframe, result, error>>

NextGroup ==
    \/ GroupStep
    \/ GroupReturn
    \/ PlotStep
    \/ PlotReturn

SpecGroup == InitGroup /\ [][NextGroup]_vars

(***************************************************************************)
(* C5: grouping.  After the first k rows of the batch, every row has       *)
(* contributed exactly one ResultPoint, to the bucket addressed by its     *)
(* SecondaryKey and its benchmark name: the bucket lengths sum to k, every *)
(* bucket lists the points of its rows in the order the rows were met      *)
(* (not sorted by value), rows with one SecondaryKey and different         *)
(* benchmark names fill distinct buckets of one group, and the buckets of  *)
(* a group stand in first-seen order.                                      *)
(***************************************************************************)
RECURSIVE Sum(_)
Sum(ns) == IF ns = <<>> THEN 0 ELSE Head(ns) + Sum(Tail(ns))

BucketLengths(rs) ==
    Flatten([g \in 1..Len(rs) |->
                [b \in 1..Len(rs[g][2]) |-> Len(rs[g][2][b][2])]])

SecondaryKeyOf(row) == <<row[ParamC], row[ParamD]>>

\* the rows met so far that belong to the bucket (key, bench), in batch order
RowsOfBucket(key, bench) ==
    SelectSeq(SubSeq(dataframe.rows, 1, rowsDone),
              LAMBDA r : SecondaryKeyOf(r) = key /\ r[ColBenchmark] = bench)

FirstSeen(key, bench) ==
    Min({i \in 1..rowsDone : /\ SecondaryKeyOf(dataframe.rows[i]) = key
                             /\ dataframe.rows[i][ColBenchmark] = bench})

\* C5
GroupingAppendsOnePointPerRow ==
    /\ Sum(BucketLengths(resultSets)) = rowsDone
    /\ \A i \in 1..rowsDone :
          \E g \in 1..Len(resultSets) :
             /\ resultSets[g][1] = SecondaryKeyOf(dataframe.rows[i])
             /\ dataframe.rows[i][ColBenchmark] \in Keys(resultSets[g][2])
    /\ \A g, h \in 1..Len(resultSets) :
          resultSets[g][1] = resultSets[h][1] => g = h
    /\ \A g \in 1..Len(resultSets) :
          LET key == resultSets[g][1]
              set == resultSets[g][2]
          IN  /\ \A b, c \in 1..Len(set) : set[b][1] = set[c][1] => b = c
              /\ \A b \in 1..Len(set) :
                    LET rows == RowsOfBucket(key, set[b][1]) IN
                    /\ rows # <<>>
                    /\ set[b][2] = [k \in 1..Len(rows) |->
                                       [value |-> rows[k][ParamN],
                                        score |-> rows[k][ColScore],
                                        error |-> rows[k][ColScoreError]]]
              /\ \A b, c \in 1..Len(set) :
                    b < c => FirstSeen(key, set[b][1]) < FirstSeen(key, set[c][1])

\* one group holding two benchmarks, the later-sorting name first, and a
\* bucket whose values descend
GroupingWitness ==
    /\ pc = "plotting"
    /\ rowsDone = 3
    /\ Len(resultSets) = 1
    /\ Len(resultSets[1][2]) = 2
    /\ resultSets[1][2][1][1] = <<"B">> /\ resultSets[1][2][2][1] = <<"A">>
    /\ Len(resultSets[1][2][1][2]) = 2
    /\ resultSets[1][2][1][2][1].value = 3 /\ resultSets[1][2][1][2][2].value = 1

(***************************************************************************)
(* C10: artifact names.  When plot_all_results has returned, every         *)
(* SecondaryKey of the grouping has its own artifact: two distinct keys    *)
(* have two distinct file names, no save overwrote an earlier one, and the *)
(* output directory holds as many files as the grouping has groups.        *)
(***************************************************************************)
\* C10 as stated
OneArtifactPerSecondaryKey ==
    pc = "plotted" =>
        /\ \A g, h \in 1..Len(resultSets) :
              resultSets[g][1] # resultSets[h][1]
                  => ArtifactName(resultSets[g][1]) # ArtifactName(resultSets[h][1])
        /\ \A i, j \in 1..Len(artifacts) : artifacts[i] = artifacts[j] => i = j
        /\ Cardinality(Range(artifacts)) = Len(resultSets)

(***************************************************************************)
(* process_benchmarks and main.                                            *)
(***************************************************************************)
\* the failure the spec's taxonomy files a BenchmarkError message under; the
\* three '0 results ...' messages tell the checkpoint that raised them
CauseOf(e) ==
    IF e.cause \in {"EmptyResult:load", "EmptyResult:benchmarks", "EmptyResult:range"}
    THEN "EmptyResult"
    ELSE IF e.cause = "PathDoesNotExist" THEN "NoInputFiles"
    ELSE e.cause

\* a pipeline without the zero-rows test
CheckpointSkipped(frame, cause) == Return(frame)

\* if len(dataframe) == 0: raise BenchmarkError('0 results ...')
Checkpoint(frame, cause) ==
    IF Len(frame.rows) = 0 THEN Raise(BenchmarkError(cause)) ELSE Return(frame)

\* a JMH sample: its data line and the eight percentile lines after it
NameFiller == <<"p", ".", "a", ":", "p", "0", ".", "5">>
SampleRow(bench, score, n) == Row(bench, score, 0, n) @@ (ParamC :> <<"a">>)
SampleLines(sh, score) ==
    <<SampleRow(sh.bench, score, sh.n)>>
        \o [i \in 1..(Step - 1) |-> SampleRow(NameFiller, score + i, sh.n)]

SampleShapes == {[bench |-> b, n |-> n] : b \in {NameA, NameB}, n \in {1, 2}}

ResultFile(shapes) ==
    [csv |-> TRUE,
     columns |-> <<ColBenchmark, ColScore, ColScoreError, ParamN, ParamC>>,
     rows |-> Flatten([k \in 1..Len(shapes) |-> SampleLines(shapes[k], 0)])]

PipelineFiles == {ResultFile(sh) : sh \in SeqsUpTo(SampleShapes, MaxSamples)}
SmallFiles == {ResultFile(sh) : sh \in SeqsUpTo(SampleShapes, 1)}

PipelinePaths ==
    {[kind |-> "missing", entries |-> <<>>]}
        \cup {[kind |-> "file", entries |-> <<f>>] : f \in PipelineFiles}
        \cup {[kind |-> "dir", entries |-> es] : es \in SeqsUpTo(SmallFiles, 2)}
        \cup {[kind |-> "dir", entries |-> <<f>>] : f \in PipelineFiles}

PipelineFilters == {<<>>, <<"A">>, <<"z">>, <<".">>}
PipelineRanges == {<<>>, <<"1", "<">>, <<"<", "1">>, <<"3", "<">>,
                   <<"2", "<", "1">>, <<"x", "<">>}

Init ==
    /\ pc = "start"
    /\ path \in PipelinePaths
    /\ primary_param_name \in {NameN, <<"z">>}
    /\ report_benchmarks \in PipelineFilters
    /\ select_range \in PipelineRanges
    /\ files = <<>> /\ file = None /\ df = None /\ normalized = None
    /\ dataframe = None /\ params = <<>> /\ bmparams = NoParams
    /\ resultSets = <<>> /\ rowsDone = 0 /\ artifacts = <<>> /\ saved = 0
    /\ results_dict = <<>> /\ result = None /\ error = NoError

\* dataframe = <stage>; if len(dataframe) == 0: raise
Stage(r, cause, next) ==
    IF r.raised
    THEN error' = r.error /\ pc' = "raised" /\ UNCHANGED dataframe
    ELSE /\ dataframe' = r.value
         /\ LET c == Checkpoint(r.value, cause) IN
            IF c.raised THEN error' = c.error /\ pc' = "raised"
            ELSE pc' = next /\ UNCHANGED error

Load ==
    /\ pc = "start"
    /\ IF path.kind = "missing"
       THEN /\ error' = BenchmarkError("PathDoesNotExist")
            /\ pc' = "raised"
            /\ UNCHANGED dataframe
       ELSE Stage(normalize_data_frame_from_path(path), "EmptyResult:load",
                  "loaded")
    /\ UNCHANGED <<argVars, loadVars, plotVars, groupVars, result>>

FilterBenchmarks ==
    /\ pc = "loaded"
    /\ Stage(filter_for_benchmarks(dataframe, report_benchmarks),
             "EmptyResult:benchmarks", "benchmarks_filtered")
    /\ UNCHANGED <<argVars, loadVars, plotVars, groupVars, result>>

FilterRange ==
    /\ pc = "benchmarks_filtered"
    /\ Stage(filter_for_range(dataframe, primary_param_name, select_range),
             "EmptyResult:range", "range_filtered")
    /\ UNCHANGED <<argVars, loadVars, plotVars, groupVars, result>>

\* params = split_params(extract_params(dataframe), primary_param_name)
SplitStage ==
    /\ pc = "range_filtered"
    /\ LET r == split_params(extract_params(dataframe), primary_param_name) IN
       /\ params' = r.params
       /\ IF r.raised
          THEN error' = r.error /\ pc' = "raised" /\ UNCHANGED bmparams
          ELSE bmparams' = r.value /\ pc' = "split" /\ UNCHANGED error
    /\ UNCHANGED <<argVars, loadVars, plotVars, dataframe, resultSets, rowsDone,
                   result>>

Group ==
    /\ pc = "split"
    /\ resultSets' = extract_results_per_param(dataframe, bmparams)
    /\ rowsDone' = Len(dataframe.rows)
    /\ pc' = "grouped"
    /\ UNCHANGED <<argVars, loadVars, plotVars, dataframe, params, bmparams,
                   result, error>>

Plot ==
    /\ pc = "grouped"
    /\ LET r == plot_all_results(resultSets, path) IN
       /\ artifacts' = r.written
       /\ saved' = Len(r.written)
       /\ IF r.raised THEN error' = r.error /\ pc' = "raised"
          ELSE pc' = "done" /\ UNCHANGED error
    /\ UNCHANGED <<argVars, loadVars, groupVars, dataframe, result>>

\* except BenchmarkError as error: print(...)
MainExcept ==
    /\ pc = "raised" /\ error.kind = "BenchmarkError"
    /\ pc' = "printed"
    /\ UNCHANGED <<argVars, loadVars, plotVars, groupVars, dataframe, result, error>>

\* any other exception leaves main with a traceback
MainPropagate ==
    /\ pc = "raised" /\ error.kind # "BenchmarkError"
    /\ pc' = "crashed"
    /\ UNCHANGED <<argVars, loadVars, plotVars, groupVars, dataframe, result, error>>

Next ==
    \/ Load
    \/ FilterBenchmarks
    \/ FilterRange
    \/ SplitStage
    \/ Group
    \/ Plot
    \/ MainExcept
    \/ MainPropagate

Spec == Init /\ [][Next]_vars

(***************************************************************************)
(* C4: empty batches.  A batch with zero rows after loading, after the     *)
(* benchmark filter or after the range filter ends the run with the        *)
(* EmptyResult of that checkpoint, raised by process_benchmarks; the       *)
(* grouping engine never sees an empty batch, and nothing is rendered      *)
(* after a failure.                                                        *)
(***************************************************************************)
Loaded == normalize_data_frame_from_path(path)
BenchmarksFiltered == filter_for_benchmarks(Loaded.value, report_benchmarks)
RangeFiltered ==
    filter_for_range(BenchmarksFiltered.value, primary_param_name, select_range)

Passed(r) == ~r.raised /\ r.value.rows # <<>>
Emptied(r) == ~r.raised /\ r.value.rows = <<>>

\* C4
EmptyBatchStopsAtCheckpoint ==
    /\ (dataframe # None /\ dataframe.rows = <<>>) =>
          /\ pc \in {"raised", "printed"}
          /\ error.kind = "BenchmarkError"
          /\ CauseOf(error) = "EmptyResult"
    /\ (pc # "start" /\ path.kind # "missing") =>
          /\ Emptied(Loaded) => error = BenchmarkError("EmptyResult:load")
          /\ (pc # "loaded" /\ Passed(Loaded) /\ Emptied(BenchmarksFiltered))
                => error = BenchmarkError("EmptyResult:benchmarks")
          /\ (pc \notin {"loaded", "benchmarks_filtered"} /\ Passed(Loaded)
                 /\ Passed(BenchmarksFiltered) /\ Emptied(RangeFiltered))
                => error = BenchmarkError("EmptyResult:range")
    /\ pc \in {"split", "grouped", "done"} => dataframe.rows # <<>>
    /\ resultSets # <<>> => dataframe.rows # <<>>
    /\ error # NoError => artifacts = <<>>

EmptyBatchWitness ==
    /\ pc = "printed"
    /\ error = BenchmarkError("EmptyResult:range")
    /\ dataframe.rows = <<>>
    /\ Len(Loaded.value.rows) = 2
    /\ resultSets = <<>> /\ artifacts = <<>>

RenderedWitness ==
    /\ pc = "done"
    /\ Len(dataframe.rows) = 2
    /\ Len(resultSets) = 1
    /\ Len(artifacts) = 1

(***************************************************************************)
(* C1: one error kind.  Every failure of process_benchmarks before the     *)
(* renderer is a BenchmarkError reporting NoInputFiles, EmptyResult,       *)
(* MissingPrimaryParameter, InvalidBenchmarkPattern or InvalidRange, so    *)
(* main catches it; in particular a primary name that is no parameter of   *)
(* the batch fails in no other way, whatever the range string.             *)
(***************************************************************************)
Causes == {"NoInputFiles", "EmptyResult", "MissingPrimaryParameter",
           "InvalidBenchmarkPattern", "InvalidRange"}

\* C1 as stated
EveryFailureIsBenchmarkError ==
    (error # NoError /\ resultSets = <<>>) =>
        /\ error.kind = "BenchmarkError"
        /\ CauseOf(error) \in Causes
        /\ pc # "crashed"

(***************************************************************************)
(* C7: stage order.  The run reports the failure of the earliest stage, in *)
(* the order Loader, Extractor, Splitter, Filters, Grouping Engine,        *)
(* Renderer, whose precondition is violated: a primary name that is no     *)
(* parameter of the loaded batch gives MissingPrimaryParameter even if the *)
(* benchmark pattern or the range is invalid or a filter leaves no rows.   *)
(***************************************************************************)
ClaimedSplit == split_params(extract_params(Loaded.value), primary_param_name)

ClaimedFailure ==
    IF path.kind = "missing" THEN "NoInputFiles"
    ELSE IF Loaded.raised THEN CauseOf(Loaded.error)
    ELSE IF Emptied(Loaded) THEN "EmptyResult"
    ELSE IF ClaimedSplit.raised THEN CauseOf(ClaimedSplit.error)
    ELSE IF BenchmarksFiltered.raised THEN CauseOf(BenchmarksFiltered.error)
    ELSE IF Emptied(BenchmarksFiltered) THEN "EmptyResult"
    ELSE IF RangeFiltered.raised THEN CauseOf(RangeFiltered.error)
    ELSE IF Emptied(RangeFiltered) THEN "EmptyResult"
    ELSE "none"

\* C7 as stated; a failure inside the renderer is left aside
FailureIsOfEarliestClaimedStage ==
    (pc \in {"printed", "crashed", "done"} /\ error.kind # "TypeError")
        => CauseOf(error) = ClaimedFailure

=============================================================================
